---- MODULE Spec2Model ----
(***************************************************************************)
(* world-id-marbles: the seed-consuming generator of                       *)
(* packages/world-id-marbles/src/lib.rs (Marble) and the request handler   *)
(* of packages/lambda/src/main.rs (function_handler).                      *)
(*                                                                         *)
(* A Marble is modelled by the record `self`:                              *)
(*   seed   the field Marble::seed (a U256; only ever divided, so its      *)
(*          width never matters below 2^256)                               *)
(*   draws  history: the draws random_number has performed on this         *)
(*          instance, each [max |-> modulus, result |-> value returned]    *)
(*   panic  history: TRUE once a call on this instance has panicked        *)
(* Every method returns [self |-> the instance afterwards, result |-> ..]. *)
(***************************************************************************)
EXTENDS Integers, Sequences, FiniteSets, TLC

(***************************** bounds **************************************)
\* number of Marble instances (and of handler invocations)
NumMarbles == 2
\* public calls (build_svg / render_png / save_png) made on one instance
MaxCalls == 2
\* largest small modulus and list length presented to the private methods
MaxMod == 5
\* private-method calls made on one instance
MaxDraws == 3

(***************************** constants ***********************************)
COLORS ==
  << "#FF0000", "#FF2B00", "#FF5500", "#FF8000", "#FFAA00", "#FFD500", "#FFFF00", "#D4FF00",
     "#AAFF00", "#80FF00", "#55FF00", "#2BFF00", "#00FF00", "#00FF2A", "#00FF2A", "#00FF80",
     "#00FFAA", "#00FFD4", "#00FFFF", "#00D4FF", "#00AAFF", "#0080FF", "#0055FF", "#002AFF",
     "#0000FF", "#2A00FF", "#0000FF", "#5500FF", "#8000FF", "#AA00FF", "#D500FF", "#FF00FF",
     "#FF00D5", "#FF00AA", "#FF0080", "#FF0055" >>

\* the rotation modulus had it been written 360
RotationMaxOffByOne == 359 + 1

\* the literal 359_u32 of build_svg's rotation draw
RotationMax == 359

\* the size function_handler passes to render_png
HandlerSize == 1024

\* the three shape templates of build_svg, in the order of the vec! literal
Templates == << "ellipseA", "path", "ellipseB" >>

(***************************** seeds ***************************************)
\* Seedable inputs: an unsigned integer (u32 / usize / U256) or a string,
\* the latter as its sequence of characters.
IntSeed(n) == [kind |-> "int", num |-> n, str |-> << >>]
StrSeed(s) == [kind |-> "str", num |-> 0, str |-> s]

Digits == << "0", "1", "2", "3", "4", "5", "6", "7", "8", "9" >>

DigitValue(c) == (CHOOSE k \in 1..Len(Digits) : Digits[k] = c) - 1

IsDigit(c) == \E k \in 1..Len(Digits) : Digits[k] = c

\* U256::from_str_radix(s, 10): the value on success, -1 for Err. The
\* ruint parser takes the digits most significant first, skips every `_`
\* (a separator it ignores for radices up to 36) and rejects any other
\* character; a string without digits parses to zero.
RECURSIVE from_str_radix_acc(_, _)
from_str_radix_acc(s, acc) ==
  IF s = << >> THEN acc
  ELSE IF Head(s) = "_" THEN from_str_radix_acc(Tail(s), acc)
  ELSE IF ~IsDigit(Head(s)) THEN -1
  ELSE from_str_radix_acc(Tail(s), acc * 10 + DigitValue(Head(s)))

from_str_radix(s) == from_str_radix_acc(s, 0)

\* Seedable::to_seed: the U256, or -1 when the unwrap panics.
to_seed(input) ==
  IF input.kind = "int" THEN input.num ELSE from_str_radix(input.str)

(***************************** Marble **************************************)
Draw(max, result) == [max |-> max, result |-> result]

\* Marble::new once to_seed has returned
Marble(seed) == [seed |-> seed, draws |-> << >>, panic |-> FALSE]

\* random_number without its `self.seed /= max`
random_number_no_consume(self, max) ==
  IF self.panic THEN [self |-> self, result |-> 0]
  ELSE IF max = 0
  THEN [self |-> [self EXCEPT !.draws = Append(@, Draw(0, 0)), !.panic = TRUE],
        result |-> 0]
  ELSE LET result == self.seed % max IN
       [self |-> [self EXCEPT !.draws = Append(@, Draw(max, result))],
        result |-> result]

\* random_number treating a used-up seed as an error
random_number_exhausted(self, max) ==
  IF self.panic THEN [self |-> self, result |-> 0]
  ELSE IF max = 0 \/ self.seed = 0
  THEN [self |-> [self EXCEPT !.draws = Append(@, Draw(max, 0)), !.panic = TRUE],
        result |-> 0]
  ELSE LET result == self.seed % max IN
       [self |-> [self EXCEPT !.seed = self.seed \div max,
                              !.draws = Append(@, Draw(max, result))],
        result |-> result]

\* Marble::random_number. `self.seed % max` panics for max = 0 (division by
\* zero); the try_into of a result < max back to T never fails.
random_number(self, max) ==
  IF self.panic THEN [self |-> self, result |-> 0]
  ELSE IF max = 0
  THEN [self |-> [self EXCEPT !.draws = Append(@, Draw(0, 0)), !.panic = TRUE],
        result |-> 0]
  ELSE LET result == self.seed % max IN
       [self |-> [self EXCEPT !.seed = self.seed \div max,
                              !.draws = Append(@, Draw(max, result))],
        result |-> result]

\* Vec::pop in the place of Vec::remove(k)
Remove_pop(arr, k) == SubSeq(arr, 1, Len(arr) - 1)

\* Vec::remove(k), k counted from 0
Remove(arr, k) == [j \in 1..(Len(arr) - 1) |-> IF j <= k THEN arr[j] ELSE arr[j + 1]]

\* the loop of random_sort had it inserted at the front of `shuffled`
RECURSIVE random_sort_loop_prepend(_, _, _)
random_sort_loop_prepend(self, arr, shuffled) ==
  IF arr = << >> \/ self.panic THEN [self |-> self, result |-> shuffled]
  ELSE LET k == random_number(self, Len(arr)) IN
       random_sort_loop_prepend(k.self, Remove(arr, k.result),
                                << arr[k.result + 1] >> \o shuffled)

\* the loop of random_sort had it tested for emptiness after the draw
RECURSIVE random_sort_loop_past_end(_, _, _)
random_sort_loop_past_end(self, arr, shuffled) ==
  IF self.panic THEN [self |-> self, result |-> shuffled]
  ELSE LET k == random_number(self, Len(arr)) IN
       IF k.self.panic THEN [self |-> k.self, result |-> shuffled]
       ELSE random_sort_loop_past_end(k.self, Remove(arr, k.result),
                                      Append(shuffled, arr[k.result + 1]))

\* the loop of random_sort had its guard been arr.len() > 1
RECURSIVE random_sort_loop_stops_early(_, _, _)
random_sort_loop_stops_early(self, arr, shuffled) ==
  IF Len(arr) <= 1 \/ self.panic THEN [self |-> self, result |-> shuffled]
  ELSE LET k == random_number(self, Len(arr)) IN
       random_sort_loop_stops_early(k.self, Remove(arr, k.result),
                                    Append(shuffled, arr[k.result + 1]))

\* the while loop of Marble::random_sort
RECURSIVE random_sort_loop(_, _, _)
random_sort_loop(self, arr, shuffled) ==
  IF arr = << >> \/ self.panic THEN [self |-> self, result |-> shuffled]
  ELSE LET k == random_number(self, Len(arr)) IN
       random_sort_loop(k.self, Remove(arr, k.result), Append(shuffled, arr[k.result + 1]))

\* Marble::random_sort
random_sort(self, arr) == random_sort_loop(self, arr, << >>)

\* random_color had it drawn below COLORS.len() - 1
random_color_short(self) ==
  LET k == random_number(self, Len(COLORS) - 1) IN
  [self |-> k.self, result |-> COLORS[k.result + 1]]

\* Marble::random_color
random_color(self) ==
  LET k == random_number(self, Len(COLORS)) IN
  [self |-> k.self, result |-> COLORS[k.result + 1]]

\* one formatdoc! shape fragment: the template with its fill colour
Shape(template, color) == [template |-> template, fill |-> color]

\* the outer formatdoc! of build_svg: the emitted fragments in order, and
\* the angle of the rotate() transform
Document(shapes, rotation) == [shapes |-> shapes, rotation |-> rotation]

\* build_svg had `rotation` been listed before `shapes` in the last formatdoc!
build_svg_rotation_first(self) ==
  LET c1 == random_color(self)
      c2 == random_color(c1.self)
      c3 == random_color(c2.self)
      shapes == << Shape(Templates[1], c1.result),
                   Shape(Templates[2], c2.result),
                   Shape(Templates[3], c3.result) >>
      rotation == random_number(c3.self, RotationMax)
      sorted == random_sort(rotation.self, shapes)
  IN [self |-> sorted.self, result |-> Document(sorted.result, rotation.result)]

\* Marble::build_svg
build_svg(self) ==
  LET c1 == random_color(self)
      c2 == random_color(c1.self)
      c3 == random_color(c2.self)
      shapes == << Shape(Templates[1], c1.result),
                   Shape(Templates[2], c2.result),
                   Shape(Templates[3], c3.result) >>
      sorted == random_sort(c3.self, shapes)
      rotation == random_number(sorted.self, RotationMax)
  IN [self |-> rotation.self, result |-> Document(sorted.result, rotation.result)]

\* the stages of Marble::render_png after build_svg, in order
Stages == << "parse", "pixmap", "render", "encode" >>

\* what the rasterizer does to one call: no failure, or the stage that fails
Faults == {"none"} \cup {Stages[k] : k \in 1..Len(Stages)}

\* the stage at which render_png's `?` returns early (0: none).
\* Pixmap::new(size, size) is None for a zero size.
FailedStage(size, fault) ==
  IF fault = "parse" THEN 1
  ELSE IF fault = "pixmap" \/ size = 0 THEN 2
  ELSE IF fault = "render" THEN 3
  ELSE IF fault = "encode" THEN 4
  ELSE 0

\* the encoded image: determined by the document rasterized and the size
Png(svg, size) == [svg |-> svg, size |-> size]

NoPng == Png(Document(<< >>, 0), 0)

\* render_png had it gone on to the later stages after a failure
render_png_keep_going(self, size, fault) ==
  LET svg == build_svg(self)
      failed == FailedStage(size, fault)
  IN [self |-> svg.self,
      result |-> [ok |-> failed = 0,
                  err |-> IF failed = 0 THEN "none" ELSE Stages[failed],
                  stages |-> Stages,
                  png |-> IF failed = 0 THEN Png(svg.result, size) ELSE NoPng]]

\* Marble::render_png: result.ok is Ok/Err, result.err the cause,
\* result.stages the stages run, result.png the Vec<u8> of an Ok
render_png(self, size, fault) ==
  LET svg == build_svg(self)
      failed == FailedStage(size, fault)
  IN [self |-> svg.self,
      result |-> [ok |-> failed = 0,
                  err |-> IF failed = 0 THEN "none" ELSE Stages[failed],
                  stages |-> SubSeq(Stages, 1, IF failed = 0 THEN Len(Stages) ELSE failed),
                  png |-> IF failed = 0 THEN Png(svg.result, size) ELSE NoPng]]

\* save_png had it written whatever render_png left, failed or not
save_png_write_anyway(self, size, fault, wrote) ==
  LET png == render_png(self, size, fault) IN
  [self |-> png.self,
   result |-> [ok |-> png.result.ok /\ wrote,
               err |-> IF ~png.result.ok THEN png.result.err
                       ELSE IF wrote THEN "none" ELSE "write",
               stages |-> png.result.stages,
               png |-> png.result.png],
   writes |-> << png.result.png >>]

\* Marble::save_png: fs::write(path, self.render_png(size)?)?. `writes` are
\* the contents handed to fs::write, and `wrote` is whether fs::write
\* returned Ok
save_png(self, size, fault, wrote) ==
  LET png == render_png(self, size, fault) IN
  [self |-> png.self,
   result |-> [ok |-> png.result.ok /\ wrote,
               err |-> IF ~png.result.ok THEN png.result.err
                       ELSE IF wrote THEN "none" ELSE "write",
               stages |-> png.result.stages,
               png |-> png.result.png],
   writes |-> IF png.result.ok THEN << png.result.png >> ELSE << >>]

(***************************** state ***************************************)
VARIABLES
  status,   \* [Inst -> "none" | "live" | "panicked"]: whether Marble::new returned
  made,     \* [Inst -> the Seedable passed to Marble::new]
  marble,   \* [Inst -> self]
  calls,    \* [Inst -> the calls completed on the instance, oldest first]
  req,      \* [Inst -> the handler invocation that owns the instance]
  files     \* the fs::write calls made, oldest first

vars == << status, made, marble, calls, req, files >>

Inst == 1..NumMarbles

\* the instance the private-method harness drives
FnInst == {1}

\* seeds given as integers
IntSeeds ==
  { 0, 1, 13, 14, 37, 16796160, 100497023, 100497061, 123643413, 2000000000 }

\* seeds given as strings
StrSeeds ==
  { << "0" >>, << "3", "7" >>, << "1", "2", "a" >>, << "1", "_", "2" >>, << >> }

SeedInputs == {IntSeed(n) : n \in IntSeeds} \cup {StrSeed(s) : s \in StrSeeds}

NoInput == [kind |-> "none", num |-> 0, str |-> << >>]

NoDocument == Document(<< >>, 0)

\* one completed call: the seed before and after, and what it returned
Call(op, arg, before, after, num, list, svg) ==
  [op |-> op, arg |-> arg, before |-> before.seed, after |-> after.seed,
   panic |-> after.panic, num |-> num, list |-> list, svg |-> svg,
   fault |-> "none", ok |-> TRUE]

\* a completed render_png or save_png call: the fault met, Ok or Err, the
\* stages run and the document of the image returned
RenderCall(op, size, fault, before, r) ==
  [Call(op, size, before, r.self, 0, r.result.stages, r.result.png.svg)
     EXCEPT !.fault = fault, !.ok = r.result.ok]

IdleReq ==
  [pc |-> "idle", present |-> FALSE, seed |-> << >>, trace |-> << >>,
   code |-> 0, type |-> "none", message |-> "none", body |-> NoDocument]

Init ==
  /\ status = [i \in Inst |-> "none"]
  /\ made = [i \in Inst |-> NoInput]
  /\ marble = [i \in Inst |-> Marble(0)]
  /\ calls = [i \in Inst |-> << >>]
  /\ req = [i \in Inst |-> IdleReq]
  /\ files = << >>

\* the seed had it been one value shared by every instance
StoreShared(m, i, self) == [j \in DOMAIN m |-> self]

\* `&mut self`: a method changes the instance it is called on
Store(m, i, self) == [m EXCEPT ![i] = self]

(***************************** the library *********************************)
\* Marble::new(seed)
New(i, input) ==
  /\ status[i] = "none"
  /\ made' = [made EXCEPT ![i] = input]
  /\ IF to_seed(input) < 0
     THEN /\ status' = [status EXCEPT ![i] = "panicked"]
          /\ UNCHANGED marble
     ELSE /\ status' = [status EXCEPT ![i] = "live"]
          /\ marble' = Store(marble, i, Marble(to_seed(input)))
  /\ UNCHANGED << calls, req, files >>

\* marble.build_svg()
BuildSvg(i) ==
  /\ status[i] = "live"
  /\ Len(calls[i]) < MaxCalls
  /\ LET r == build_svg(marble[i]) IN
       /\ marble' = Store(marble, i, r.self)
       /\ calls' = [calls EXCEPT ![i] =
                      Append(@, Call("build_svg", 0, marble[i], r.self, 0, << >>, r.result))]
  /\ UNCHANGED << status, made, req, files >>

Next ==
  \/ \E i \in Inst, input \in SeedInputs : New(i, input)
  \/ \E i \in Inst : BuildSvg(i)

Spec == Init /\ [][Next]_vars

(***************************** the private methods *************************)
\* the moduli presented to random_number: 0 (the divide-by-zero case),
\* the small ones, and the two build_svg uses
Moduli == 0..MaxMod \cup {Len(COLORS), RotationMax}

\* the list 1, 2, .., n
Iota(n) == [j \in 1..n |-> j]

\* self.random_number(max)
RandomNumber(i, max) ==
  /\ status[i] = "live"
  /\ ~marble[i].panic
  /\ Len(calls[i]) < MaxDraws
  /\ LET r == random_number(marble[i], max) IN
       /\ marble' = Store(marble, i, r.self)
       /\ calls' = [calls EXCEPT ![i] =
            Append(@, Call("random_number", max, marble[i], r.self, r.result, << >>, NoDocument))]
  /\ UNCHANGED << status, made, req, files >>

\* self.random_sort(arr), arr of length n
RandomSort(i, n) ==
  /\ status[i] = "live"
  /\ ~marble[i].panic
  /\ Len(calls[i]) < MaxDraws
  /\ LET r == random_sort(marble[i], Iota(n)) IN
       /\ marble' = Store(marble, i, r.self)
       /\ calls' = [calls EXCEPT ![i] =
            Append(@, Call("random_sort", n, marble[i], r.self, 0, r.result, NoDocument))]
  /\ UNCHANGED << status, made, req, files >>

FnNext ==
  \/ \E i \in FnInst, input \in SeedInputs : New(i, input)
  \/ \E i \in FnInst, max \in Moduli : RandomNumber(i, max)
  \/ \E i \in FnInst, n \in 0..MaxMod : RandomSort(i, n)

FnSpec == Init /\ [][FnNext]_vars

(***************************** rendering ***********************************)
\* the sizes asked for: the handler's, and zero
Sizes == {0, HandlerSize}

\* the seeds rendered
RenderSeeds ==
  {IntSeed(0), IntSeed(37), IntSeed(100497061), IntSeed(123643413),
   StrSeed(<< "3", "7" >>), StrSeed(<< "1", "2", "a" >>)}

\* one fs::write(path, contents) made by call k of instance i
Write(i, k, contents, wrote) == [inst |-> i, call |-> k, png |-> contents, ok |-> wrote]

\* marble.render_png(size)
RenderPng(i, size, fault) ==
  /\ status[i] = "live"
  /\ Len(calls[i]) < MaxCalls
  /\ LET r == render_png(marble[i], size, fault) IN
       /\ marble' = Store(marble, i, r.self)
       /\ calls' = [calls EXCEPT ![i] =
                      Append(@, RenderCall("render_png", size, fault, marble[i], r))]
  /\ UNCHANGED << status, made, req, files >>

\* marble.save_png(size, path)
SavePng(i, size, fault, wrote) ==
  /\ status[i] = "live"
  /\ Len(calls[i]) < MaxCalls
  /\ LET r == save_png(marble[i], size, fault, wrote) IN
       /\ marble' = Store(marble, i, r.self)
       /\ calls' = [calls EXCEPT ![i] =
                      Append(@, RenderCall("save_png", size, fault, marble[i], r))]
       /\ files' = files \o [w \in 1..Len(r.writes) |->
                               Write(i, Len(calls[i]) + 1, r.writes[w], wrote)]
  /\ UNCHANGED << status, made, req >>

RenderNext ==
  \/ \E i \in FnInst, input \in RenderSeeds : New(i, input)
  \/ \E i \in FnInst, size \in Sizes, fault \in Faults : RenderPng(i, size, fault)
  \/ \E i \in FnInst, size \in Sizes, fault \in Faults, wrote \in BOOLEAN :
       SavePng(i, size, fault, wrote)

RenderSpec == Init /\ [][RenderNext]_vars

(***************************** the handler *********************************)
\* seed parameters of a request: absent, or a string (an empty one included)
Params == {[present |-> FALSE, seed |-> << >>]}
            \cup {[present |-> TRUE, seed |-> str] : str \in StrSeeds}

\* ErrorResponse::build(message)
ErrorResponse(message) ==
  [code |-> 400, type |-> "application/json", message |-> message, body |-> NoDocument]

\* Response::builder().status(200).header("content-type", "image/png").body(png)
PngResponse(png) ==
  [code |-> 200, type |-> "image/png", message |-> "none", body |-> png]

\* the handler returns Ok(response)
Respond(r, response) ==
  [r EXCEPT !.pc = "done", !.code = response.code, !.type = response.type,
            !.message = response.message, !.body = response.body]

\* an invocation of function_handler starts with its event
Invoke(i, param) ==
  /\ req[i].pc = "idle"
  /\ status[i] = "none"
  /\ req' = [req EXCEPT ![i] = [@ EXCEPT !.pc = "seed", !.present = param.present,
                                         !.seed = param.seed]]
  /\ UNCHANGED << status, made, marble, calls, files >>

\* let Some(seed) = ...first("seed") else { return "Seed not provided." }
GetSeed(i) ==
  /\ req[i].pc = "seed"
  /\ req' = [req EXCEPT ![i] =
               IF req[i].present THEN [@ EXCEPT !.pc = "new"]
               ELSE Respond(@, ErrorResponse("Seed not provided."))]
  /\ UNCHANGED << status, made, marble, calls, files >>

\* let mut marble = Marble::new(seed), whose unwrap may panic
HandlerNew(i) ==
  /\ req[i].pc = "new"
  /\ made' = [made EXCEPT ![i] = StrSeed(req[i].seed)]
  /\ IF to_seed(StrSeed(req[i].seed)) < 0
     THEN /\ status' = [status EXCEPT ![i] = "panicked"]
          /\ req' = [req EXCEPT ![i] = [@ EXCEPT !.pc = "panicked",
                                                 !.trace = Append(@, "new")]]
          /\ UNCHANGED marble
     ELSE /\ status' = [status EXCEPT ![i] = "live"]
          /\ marble' = Store(marble, i, Marble(to_seed(StrSeed(req[i].seed))))
          /\ req' = [req EXCEPT ![i] = [@ EXCEPT !.pc = "render",
                                                 !.trace = Append(@, "new")]]
  /\ UNCHANGED << calls, files >>

\* let Ok(png) = marble.render_png(1024) else { return "Failed to render marble." }
HandlerRender(i, fault) ==
  /\ req[i].pc = "render"
  /\ LET r == render_png(marble[i], HandlerSize, fault) IN
       /\ marble' = Store(marble, i, r.self)
       /\ calls' = [calls EXCEPT ![i] =
            Append(@, RenderCall("render_png", HandlerSize, fault, marble[i], r))]
       /\ req' = [req EXCEPT ![i] =
            IF r.result.ok
            THEN [@ EXCEPT !.pc = "respond", !.body = r.result.png.svg,
                           !.trace = @ \o << "render_png", "build_svg" >>]
            ELSE [Respond(@, ErrorResponse("Failed to render marble."))
                    EXCEPT !.trace = @ \o << "render_png", "build_svg" >>]]
  /\ UNCHANGED << status, made, files >>

\* let Ok(resp) = Response::builder()...body(..) else { return "Failed to build response." }
HandlerRespond(i, built) ==
  /\ req[i].pc = "respond"
  /\ req' = [req EXCEPT ![i] =
               IF built THEN Respond(@, PngResponse(req[i].body))
               ELSE Respond(@, ErrorResponse("Failed to build response."))]
  /\ UNCHANGED << status, made, marble, calls, files >>

HandlerNext ==
  \/ \E i \in Inst, param \in Params : Invoke(i, param)
  \/ \E i \in Inst : GetSeed(i)
  \/ \E i \in Inst : HandlerNew(i)
  \/ \E i \in Inst, fault \in Faults : HandlerRender(i, fault)
  \/ \E i \in Inst, built \in BOOLEAN : HandlerRespond(i, built)

HandlerSpec == Init /\ [][HandlerNext]_vars

(***************************** properties **********************************)
\* the draws of the k-th build_svg call on instance i (under Spec every
\* call is a build_svg call)
DrawsOf(i, k) == SubSeq(marble[i].draws, 7 * (k - 1) + 1, 7 * k)

\* C1: calling build_svg twice on the same Marble returns the identical
\* document both times, and the stored seed after the second call equals the
\* stored seed after the first (the seed is consumed only once).
C1_BuildSvgIdempotent ==
  \A i \in Inst : \A a, b \in 1..Len(calls[i]) :
    (a < b /\ calls[i][a].op = "build_svg" /\ calls[i][b].op = "build_svg")
      => /\ calls[i][b].svg = calls[i][a].svg
         /\ calls[i][b].after = calls[i][a].after

\* C2: a build_svg call performs exactly seven draws, with the moduli
\* 36, 36, 36 (the colours of templates 1, 2, 3), then 3, 2, 1 (the shuffle),
\* then 359 (the rotation), in this order: the k-th colour draw fills the
\* k-th template, the first shuffle draw picks the first fragment emitted,
\* and the last draw is the rotation.
C2_DrawOrder ==
  \A i \in Inst :
    /\ Len(marble[i].draws) = 7 * Len(calls[i])
    /\ \A k \in 1..Len(calls[i]) :
         LET d == DrawsOf(i, k)
             svg == calls[i][k].svg
         IN /\ [q \in 1..7 |-> d[q].max] = << 36, 36, 36, 3, 2, 1, 359 >>
            /\ \A j \in 1..3 : \E p \in 1..Len(svg.shapes) :
                 svg.shapes[p] = Shape(Templates[j], COLORS[d[j].result + 1])
            /\ svg.shapes[1].template = Templates[d[4].result + 1]
            /\ svg.rotation = d[7].result

C2_Witness ==
  \E i \in Inst :
    /\ Len(calls[i]) = 1
    /\ calls[i][1].before = 123643413
    /\ [q \in 1..7 |-> marble[i].draws[q].result] = << 9, 31, 3, 1, 1, 0, 82 >>
    /\ calls[i][1].svg.shapes[1].template = "path"

\* C3: a draw with a positive modulus m on stored seed v returns v mod m,
\* a value in [0, m), and leaves floor(v / m) stored; with m = 1 it
\* returns 0.
C3_DrawIsDivMod ==
  \A i \in Inst : \A k \in 1..Len(calls[i]) :
    LET c == calls[i][k] IN
    (c.op = "random_number" /\ c.arg > 0)
      => /\ 0 <= c.num /\ c.num < c.arg
         /\ c.before = c.after * c.arg + c.num
         /\ ~c.panic
         /\ (c.arg = 1 => c.num = 0 /\ c.after = c.before)
         /\ (k = Len(calls[i]) => marble[i].seed = c.after)

C3_Witness ==
  \E i \in Inst : \E k \in 1..Len(calls[i]) :
    /\ calls[i][k].op = "random_number"
    /\ calls[i][k].before = 123643413
    /\ calls[i][k].arg = 5
    /\ calls[i][k].num = 3
    /\ calls[i][k].after = 24728682

C5_DrawRanges ==
  \A i \in Inst : \A k \in 1..Len(calls[i]) :
    LET d == DrawsOf(i, k) IN
    /\ \A q \in 1..3 : d[q].result \in 0..35
    /\ \A q \in 4..6 : d[q].result \in 0..(6 - q)
    /\ d[7].result \in 0..358
    /\ calls[i][k].svg.rotation \in 0..358

C5_Witness ==
  \E i \in Inst :
    /\ Len(calls[i]) >= 1
    /\ [q \in 1..7 |-> DrawsOf(i, 1)[q].result] = << 35, 35, 35, 2, 1, 0, 358 >>

\* C6: for seed 0, given as the integer 0 or as the string "0", build_svg
\* draws 0 seven times: every shape is filled with #FF0000, the shapes come
\* in template order ellipse-A, path, ellipse-B, and the rotation is 0.
C6_ZeroSeed ==
  \A i \in Inst :
    made[i] \in {IntSeed(0), StrSeed(<< "0" >>)}
      => /\ status[i] = "live"
         /\ \A k \in 1..Len(marble[i].draws) : marble[i].draws[k].result = 0
         /\ \A k \in 1..Len(calls[i]) :
              calls[i][k].svg =
                Document(<< Shape("ellipseA", "#FF0000"), Shape("path", "#FF0000"),
                            Shape("ellipseB", "#FF0000") >>, 0)

C6_Witness ==
  \E i, j \in Inst :
    /\ made[i] = IntSeed(0) /\ Len(calls[i]) >= 1
    /\ made[j] = StrSeed(<< "0" >>) /\ Len(calls[j]) >= 1

\* C7: zero is absorbing: a draw with a positive modulus on a stored seed
\* of 0 returns 0, leaves 0 stored and does not fail, however many draws
\* have gone before.
C7_ZeroAbsorbing ==
  \A i \in Inst : \A k \in 1..Len(calls[i]) :
    LET c == calls[i][k] IN
    (c.op = "random_number" /\ c.arg > 0 /\ c.before = 0)
      => c.num = 0 /\ c.after = 0 /\ ~c.panic /\ status[i] = "live"

C7_Witness ==
  \E i \in Inst :
    /\ Len(calls[i]) = 3
    /\ \A k \in 1..3 : calls[i][k].op = "random_number" /\ calls[i][k].arg > 1
    /\ calls[i][1].before > 0 /\ calls[i][1].after = 0
    /\ calls[i][2].before = 0 /\ calls[i][3].before = 0 /\ calls[i][3].after = 0

\* C8: no draw of build_svg is ever requested with modulus 0: the moduli are
\* 36, the non-zero lengths 3, 2, 1 of the shuffle's working list, and 359,
\* and no call fails on a division by zero, for any seed and any number of
\* calls.
C8_NoZeroModulus ==
  \A i \in Inst :
    /\ ~marble[i].panic
    /\ \A k \in 1..Len(marble[i].draws) :
         marble[i].draws[k].max \in {36, 3, 2, 1, 359}
    /\ \A k \in 1..Len(calls[i]) : ~calls[i][k].panic

C8_Witness ==
  \E i \in Inst :
    /\ Len(calls[i]) = MaxCalls
    /\ calls[i][1].before > 0
    /\ calls[i][MaxCalls].before = 0
    /\ Len(marble[i].draws) = 7 * MaxCalls

\* C9: the document of build_svg holds each of the three templates exactly
\* once, and each template carries the colour drawn for it in template
\* order (ellipse-A the 1st colour draw, path the 2nd, ellipse-B the 3rd),
\* whatever the emission order.
C9_PermutationKeepsColours ==
  \A i \in Inst : \A k \in 1..Len(calls[i]) :
    LET d == DrawsOf(i, k)
        shapes == calls[i][k].svg.shapes
        name == << "ellipseA", "path", "ellipseB" >>
    IN /\ Len(shapes) = 3
       /\ \A j \in 1..3 :
            /\ Cardinality({p \in 1..3 : shapes[p].template = name[j]}) = 1
            /\ \A p \in 1..3 :
                 shapes[p].template = name[j] => shapes[p].fill = COLORS[d[j].result + 1]

C9_Witness ==
  \E i \in Inst :
    /\ Len(calls[i]) >= 1
    /\ calls[i][1].svg.shapes =
         << Shape("path", "#FF00FF"), Shape("ellipseB", "#FF8000"),
            Shape("ellipseA", "#80FF00") >>

\* C10: a request whose seed parameter is empty or missing gets the 400
\* response "Seed not provided." and the handler makes no call to
\* Marble::new, build_svg or render_png for it.
C10_NoSeedNoCall ==
  \A i \in Inst :
    (req[i].pc # "idle" /\ (~req[i].present \/ req[i].seed = << >>))
      => /\ req[i].trace = << >>
         /\ req[i].pc \in {"seed", "done"}
         /\ req[i].pc = "done" =>
              /\ req[i].code = 400
              /\ req[i].type = "application/json"
              /\ req[i].message = "Seed not provided."

\* C11: creating a Marble from a seed string that holds a non-digit
\* character fails at conversion: no Marble comes into existence for it and
\* no draw or call is ever made on it.
C11_NonDigitFails ==
  \A i \in Inst :
    (made[i].kind = "str" /\ \E k \in 1..Len(made[i].str) :
        made[i].str[k] \notin {"0", "1", "2", "3", "4", "5", "6", "7", "8", "9"})
      => /\ status[i] = "panicked"
         /\ marble[i].draws = << >>
         /\ calls[i] = << >>

\* C12: every request that carries a seed parameter gets a response: 200
\* with content-type image/png when rendering succeeds, otherwise a 400 JSON
\* response with one of the short fixed messages; the handler never ends
\* without a response, a failed seed conversion included.
C12_AlwaysResponds ==
  \A i \in Inst :
    req[i].present
      => /\ req[i].pc # "panicked"
         /\ req[i].pc = "done" =>
              \/ /\ req[i].code = 200
                 /\ req[i].type = "image/png"
                 /\ req[i].body # NoDocument
              \/ /\ req[i].code = 400
                 /\ req[i].type = "application/json"
                 /\ req[i].message \in {"Failed to render marble.",
                                        "Failed to build response."}

\* the stage of a render that fails first: parsing comes before the pixel
\* buffer, which cannot be allocated for a zero size
FirstFailure(c) ==
  IF c.fault = "parse" THEN "parse" ELSE IF c.arg = 0 THEN "pixmap" ELSE c.fault

\* C13: render_png is all-or-nothing and never retries: its stages run in
\* order, each at most once; when none fails it returns the complete image,
\* and when one fails that stage is the last one run, the call returns the
\* failure and no image bytes.
C13_RenderAllOrNothing ==
  \A i \in Inst : \A k \in 1..Len(calls[i]) :
    LET c == calls[i][k] IN
    c.op = "render_png"
      => /\ c.list = SubSeq(<< "parse", "pixmap", "render", "encode" >>, 1, Len(c.list))
         /\ FirstFailure(c) = "none"
              => c.ok /\ Len(c.list) = 4 /\ Len(c.svg.shapes) = 3
         /\ FirstFailure(c) # "none"
              => ~c.ok /\ c.svg = NoDocument /\ c.list[Len(c.list)] = FirstFailure(c)

C13_Witness ==
  \E i \in Inst :
    /\ Len(calls[i]) = 2
    /\ calls[i][1].op = "render_png" /\ calls[i][1].fault = "render"
    /\ calls[i][1].arg = HandlerSize /\ ~calls[i][1].ok
    /\ calls[i][1].list = << "parse", "pixmap", "render" >>
    /\ calls[i][2].op = "render_png" /\ calls[i][2].ok

\* C14: earlier outputs do not depend on later draws: two seeds that yield
\* the same first six draws (equivalently, that agree modulo
\* 36*36*36*3*2*1 = 279936) give documents with the same three colours in
\* the same emission order, differing at most in the rotation; and the
\* first colour is fixed by seed mod 36 alone.
C14_EarlierOutputsIndependent ==
  \A i, j \in Inst :
    (Len(calls[i]) >= 1 /\ Len(calls[j]) >= 1)
      => LET ci == calls[i][1]
             cj == calls[j][1]
         IN /\ (\A q \in 1..6 : DrawsOf(i, 1)[q].result = DrawsOf(j, 1)[q].result)
                 => ci.svg.shapes = cj.svg.shapes
            /\ ci.before % 279936 = cj.before % 279936
                 => ci.svg.shapes = cj.svg.shapes
            /\ \A p \in 1..Len(ci.svg.shapes) :
                 ci.svg.shapes[p].template = "ellipseA"
                   => ci.svg.shapes[p].fill = COLORS[(ci.before % 36) + 1]

C14_Witness ==
  \E i, j \in Inst :
    /\ Len(calls[i]) >= 1 /\ Len(calls[j]) >= 1
    /\ calls[i][1].before = 0 /\ calls[j][1].before = 16796160
    /\ \A q \in 1..6 : DrawsOf(i, 1)[q].result = DrawsOf(j, 1)[q].result
    /\ calls[i][1].svg.shapes = calls[j][1].svg.shapes
    /\ calls[i][1].svg.rotation = 0 /\ calls[j][1].svg.rotation = 60

\* the document a request with this seed parameter is answered with when
\* it is the only invocation
AloneDocument(seed) == build_svg(Marble(to_seed(StrSeed(seed)))).result

\* C15: under any interleaving of handler invocations each invocation
\* creates and uses its own Marble, which no other invocation touches: the
\* Marble it renders is the one made from its own seed, rendered once, and
\* its response is the one the same request gets when it runs alone.
C15_InvocationsIsolated ==
  \A i \in Inst :
    /\ status[i] # "none" => made[i] = StrSeed(req[i].seed)
    /\ Len(calls[i]) <= 1
    /\ \A k \in 1..Len(calls[i]) :
         /\ calls[i][k].op = "render_png"
         /\ calls[i][k].before = to_seed(StrSeed(req[i].seed))
    /\ req[i].pc = "panicked" => to_seed(StrSeed(req[i].seed)) < 0
    /\ req[i].pc = "done" =>
         IF ~req[i].present
         THEN req[i].code = 400 /\ req[i].message = "Seed not provided."
         ELSE IF calls[i][1].fault # "none"
         THEN req[i].code = 400 /\ req[i].message = "Failed to render marble."
         ELSE \/ req[i].code = 200 /\ req[i].body = AloneDocument(req[i].seed)
              \/ req[i].code = 400 /\ req[i].message = "Failed to build response."

C15_Witness ==
  \E i, j \in Inst :
    /\ i # j
    /\ req[i].pc = "done" /\ req[i].code = 200 /\ req[i].seed = << "3", "7" >>
    /\ req[j].pc = "render" /\ req[j].seed = << "1", "_", "2" >>
    /\ req[i].body = AloneDocument(<< "3", "7" >>)
    /\ req[i].body # AloneDocument(<< "1", "_", "2" >>)

\* C16: one build_svg call on stored seed S leaves floor(S / 100497024)
\* stored, where 100497024 = 36*36*36*3*2*1*359, and its document depends
\* only on S mod 100497024: calls on congruent stored seeds return the same
\* document.
C16_OneCallDividesByProduct ==
  /\ 36 * 36 * 36 * 3 * 2 * 1 * 359 = 100497024
  /\ \A i \in Inst : \A k \in 1..Len(calls[i]) :
       /\ calls[i][k].after = calls[i][k].before \div 100497024
       /\ k = Len(calls[i]) => marble[i].seed = calls[i][k].after
       /\ \A j \in Inst : \A l \in 1..Len(calls[j]) :
            calls[i][k].before % 100497024 = calls[j][l].before % 100497024
              => calls[i][k].svg = calls[j][l].svg

C16_Witness ==
  \E i, j \in Inst :
    /\ Len(calls[i]) >= 1 /\ Len(calls[j]) >= 1
    /\ calls[i][1].before = 37 /\ calls[i][1].after = 0
    /\ calls[j][1].before = 100497061 /\ calls[j][1].after = 1
    /\ calls[i][1].svg = calls[j][1].svg
    /\ calls[i][1].svg.shapes[1].fill = "#FF2B00"

\* C17: over the build_svg calls on one Marble the stored seed never
\* increases and falls strictly while it is not 0, so it reaches 0 after
\* finitely many calls; a call that starts below 100497024 ends at 0; and
\* once the stored seed is 0 every call returns the document of seed 0.
C17_SeedRunsOut ==
  \A i \in Inst : \A k \in 1..Len(calls[i]) :
    LET c == calls[i][k] IN
    /\ c.before = (IF k = 1 THEN to_seed(made[i]) ELSE calls[i][k - 1].after)
    /\ c.after <= c.before
    /\ c.before > 0 => c.after < c.before
    /\ c.before < 100497024 => c.after = 0
    /\ c.before = 0 =>
         c.svg = Document(<< Shape("ellipseA", "#FF0000"), Shape("path", "#FF0000"),
                             Shape("ellipseB", "#FF0000") >>, 0)

C17_Witness ==
  \E i, j \in Inst :
    /\ Len(calls[i]) = 2 /\ Len(calls[j]) = 2
    /\ calls[i][1].before = 37 /\ calls[i][1].after = 0
    /\ calls[i][2].svg # calls[i][1].svg /\ calls[i][2].svg.shapes[1].fill = "#FF0000"
    /\ calls[j][1].before = 2000000000 /\ calls[j][1].after = 19
    /\ calls[j][2].before = 19 /\ calls[j][2].after = 0

\* the number of draws made by the first k calls of a private-method run:
\* one by each random_number call, n by a random_sort of n elements
RECURSIVE DrawsBy(_, _)
DrawsBy(cs, k) ==
  IF k = 0 THEN 0
  ELSE DrawsBy(cs, k - 1) + (IF cs[k].op = "random_sort" THEN cs[k].arg ELSE 1)

\* C18: for a list of any length n >= 0, random_sort ends after exactly n
\* iterations: it makes exactly n draws, with moduli n, n-1, .., 1 (none
\* for the empty list), and returns a list of length n that holds every
\* input element exactly once.
C18_SortDrawsAndPermutes ==
  \A i \in Inst :
    /\ Len(marble[i].draws) = DrawsBy(calls[i], Len(calls[i]))
    /\ \A k \in 1..Len(calls[i]) :
         LET c == calls[i][k]
             n == c.arg
             first == DrawsBy(calls[i], k - 1)
         IN c.op = "random_sort"
              => /\ ~c.panic
                 /\ \A q \in 1..n : marble[i].draws[first + q].max = n + 1 - q
                 /\ Len(c.list) = n
                 /\ \A e \in 1..n : Cardinality({p \in 1..n : c.list[p] = e}) = 1

C18_Witness ==
  \E i \in Inst : \E k \in 1..Len(calls[i]) :
    /\ calls[i][k].op = "random_sort"
    /\ calls[i][k].arg = MaxMod
    /\ calls[i][k].list # Iota(MaxMod)
    /\ calls[i][k].list[1] = MaxMod
    /\ \E l \in 1..Len(calls[i]) : calls[i][l].op = "random_sort" /\ calls[i][l].arg = 0

\* the fs::write calls made by call k of instance i
WritesOf(i, k) == {w \in 1..Len(files) : files[w].inst = i /\ files[w].call = k}

\* C19: save_png writes the file only after render_png has succeeded: when
\* render_png fails, save_png returns the error and makes no write; when it
\* succeeds, save_png makes one write, of exactly the bytes render_png
\* returned.
C19_SaveWritesAfterRender ==
  /\ \A w \in 1..Len(files) :
       /\ files[w].inst \in Inst
       /\ files[w].call \in 1..Len(calls[files[w].inst])
       /\ calls[files[w].inst][files[w].call].op = "save_png"
  /\ \A i \in Inst : \A k \in 1..Len(calls[i]) :
       LET c == calls[i][k] IN
       c.op = "save_png"
         => /\ FirstFailure(c) # "none" => ~c.ok /\ WritesOf(i, k) = {}
            /\ FirstFailure(c) = "none" =>
                 /\ Cardinality(WritesOf(i, k)) = 1
                 /\ \A w \in WritesOf(i, k) :
                      /\ files[w].png = Png(c.svg, c.arg)
                      /\ Len(files[w].png.svg.shapes) = 3
                      /\ c.ok = files[w].ok

C19_Witness ==
  \E i \in Inst :
    /\ Len(calls[i]) = 2
    /\ calls[i][1].op = "save_png" /\ calls[i][1].fault = "encode"
    /\ calls[i][1].arg = HandlerSize /\ ~calls[i][1].ok
    /\ calls[i][2].op = "save_png" /\ calls[i][2].ok
    /\ Len(files) = 1 /\ files[1].call = 2
    /\ files[1].png.svg = calls[i][2].svg /\ files[1].png.size = HandlerSize

====
